---------------------------- MODULE Spec2Model ----------------------------
(* convert.py: convert_md_to_ipynb(folder_path) walks a directory tree,    *)
(* and for every file whose name ends in ".md" opens the derived ".ipynb"   *)
(* path for writing and runs `notedown <md_path>` with its standard output  *)
(* redirected into that file.                                               *)
(*                                                                          *)
(* Paths and file names are sequences of one-character strings, so that     *)
(* str.endswith, os.path.join and os.path.splitext are computed character   *)
(* by character as the library computes them.                               *)
EXTENDS Integers, Sequences, FiniteSets, Bags, TLC

(***************************************************************************)
(* Bounds of the model.                                                    *)
(***************************************************************************)
MaxFiles == 2
MaxRuns == 2
MaxNameLen == 6

(***************************************************************************)
(* String literals of the program and names used to populate the tree.     *)
(***************************************************************************)
sep == "/"
extsep == "."
MdSuffix == <<".", "m", "d">>
IpynbExt == <<".", "i", "p", "y", "n", "b">>
Notedown == <<"n", "o", "t", "e", "d", "o", "w", "n">>
folder_path == <<".">>

FileNames ==
    { <<"a", ".", "m", "d">>,
      <<".", "m", "d">>,
      <<".", "m", "d", ".", "m", "d">>,
      <<"a", ".", "M", "D">>,
      <<"a", ".", "i", "p", "y", "n", "b">> }

\* The directories a tree may hold: a chain two deep whose names end in
\* ".md", and one named like the destination of a.md.
DirMd == <<".", "/", "d", ".", "m", "d">>
DirMdMd == <<".", "/", "d", ".", "m", "d", "/", "d", ".", "m", "d">>
DirIpynb == <<".", "/", "a", ".", "i", "p", "y", "n", "b">>

\* The directory layouts explored; the empty one is a missing folder_path.
Trees ==
    { {},
      {folder_path},
      {folder_path, DirMd},
      {folder_path, DirIpynb},
      {folder_path, DirMd, DirIpynb},
      {folder_path, DirMd, DirMdMd} }

NameAlphabet == {".", "m", "d", "a"}

Old == <<"old">>

(***************************************************************************)
(* Library functions the script calls, computed as CPython computes them.  *)
(***************************************************************************)
\* str.rfind for a single character: the last index holding c, 0 when absent
\* (CPython returns a 0-based index and -1; indices here are 1-based).
RECURSIVE rfindFrom(_, _, _)
rfindFrom(p, c, i) ==
    IF i = 0 THEN 0 ELSE IF p[i] = c THEN i ELSE rfindFrom(p, c, i - 1)

rfind(p, c) == rfindFrom(p, c, Len(p))

\* A suffix test that ignores case, as s.lower().endswith(suffix) would be.
endswithCaseless(s, suffix) ==
    LET lower(ch) == IF ch = "M" THEN "m" ELSE IF ch = "D" THEN "d" ELSE ch
    IN  /\ Len(s) >= Len(suffix)
        /\ \A i \in 1..Len(suffix) :
              lower(s[Len(s) - Len(suffix) + i]) = lower(suffix[i])

\* str.endswith(suffix)
endswith(s, suffix) ==
    /\ Len(s) >= Len(suffix)
    /\ SubSeq(s, Len(s) - Len(suffix) + 1, Len(s)) = suffix

\* os.path.join(root, file) for a relative `file` and a `root` that does not
\* end in the separator.
join(a, b) == a \o <<sep>> \o b

\* A split at the last dot after the last separator, leading dots included
\* (what p.rsplit(".", 1)[0] gives for a file name holding a dot).
splitextNoDotSkip(p) ==
    LET sepIndex == rfind(p, sep)
        dotIndex == rfind(p, extsep)
    IN  IF dotIndex > sepIndex THEN SubSeq(p, 1, dotIndex - 1) ELSE p

\* os.path.splitext(p)[0] (posixpath / genericpath._splitext): the extension
\* starts at the last dot after the last separator, unless only dots precede
\* it in the file name, in which case there is no extension.
splitext(p) ==
    LET sepIndex == rfind(p, sep)
        dotIndex == rfind(p, extsep)
    IN  IF /\ dotIndex > sepIndex
           /\ \E filenameIndex \in (sepIndex + 1)..(dotIndex - 1) :
                 p[filenameIndex] # extsep
        THEN SubSeq(p, 1, dotIndex - 1)
        ELSE p

\* A derivation that appends to the whole path and ends in ".md" again.
DerivedKeepsSuffix(path) == path \o MdSuffix

\* ipynb_path = os.path.splitext(md_path)[0] + ".ipynb"
DerivedPath(path) == splitext(path) \o IpynbExt

\* What mode "a" would leave of an existing file.
KeepContent(content) == content

\* open(ipynb_path, "w") truncates an existing file.
Truncate(content) == <<>>

\* subprocess.run(..., check=True) raises CalledProcessError.
checkTrue == TRUE

\* subprocess.run(..., check=False): a non-zero exit status raises nothing.
check == FALSE

\* An onerror callback that re-raises the OSError of os.scandir.
onerrorRaises == TRUE

\* os.walk(..., onerror=None): an OSError of os.scandir is ignored.
onerror == FALSE

\* A loop that does not advance past `file`.
RestKeeps(fileset, f) == fileset

\* `for file in files` consumes the listing: what is left after `file`.
Rest(fileset, f) == fileset \ {f}

\* subprocess.Popen without wait(): the child is still there.
NoWait(ps, p) == ps

\* subprocess.run waits for the child: the child is gone when it returns.
WaitChild(ps, p) == ps \ {p}

(***************************************************************************)
(* The file system and the state of one call.                              *)
(***************************************************************************)
VARIABLES
    dirs,        \* paths of the directories that exist
    unreadable,  \* directories whose listing fails (os.scandir raises OSError)
    fs,          \* regular files: path -> content
    tool,        \* whether `notedown` can be executed
    pc,          \* position in convert_md_to_ipynb
    err,         \* the exception that left the call, "none" otherwise
    stack,       \* os.walk: directories still to list
    root,        \* os.walk: directory of the current (root, _, files)
    subdirs,     \* os.walk: sub-directories of root, in listing order
    files,       \* the part of `files` the inner loop has not reached yet
    md_path,
    ipynb_path,
    outfile,     \* paths open for writing
    procs,       \* child processes alive: [argv, stdout]
    run,         \* number of calls made so far
    calls,       \* bag of the children spawned by this call: [argv, stdout]
    exits,       \* children that have exited: [argv, stdout, out, status]
    derived,     \* destination paths derived by this call
    prevDerived, \* the same for the previous call
    before,      \* fs when this call started
    existed      \* whether the destination was a file when it was opened

vars == <<dirs, unreadable, fs, tool, pc, err, stack, root, subdirs, files,
          md_path, ipynb_path, outfile, procs, run, calls, exits, derived,
          prevDerived, before, existed>>

tree == <<dirs, unreadable, tool>>

NoPath == <<>>

dirname(p) == SubSeq(p, 1, rfind(p, sep) - 1)

basename(p) == SubSeq(p, rfind(p, sep) + 1, Len(p))

\* os.scandir(top): the entries of a directory, split as os.walk splits them.
Nondirs(top) == {basename(p) : p \in {q \in DOMAIN fs : dirname(q) = top}}

\* A listing that descends nowhere, as os.listdir(top) used in place of os.walk.
SubdirsNone(top) == {}

Subdirs(top) == {basename(p) : p \in {q \in dirs : Len(q) > 1 /\ dirname(q) = top}}

ScandirFails(top) == top \notin dirs \/ top \in unreadable

\* What the child may do: write a notebook and exit 0, or fail having
\* written nothing. The script reads neither the status nor the output.
ChildOutcomes ==
    { [status |-> 0, out |-> <<"nb">>],
      [status |-> 1, out |-> <<>>] }

(***************************************************************************)
(* Initial states: one of the layouts of Trees holding at most MaxFiles     *)
(* files, any of its directories unreadable.                               *)
(***************************************************************************)
RECURSIVE UpTo(_, _)
UpTo(S, k) ==
    IF k = 0 THEN {{}}
    ELSE LET smaller == UpTo(S, k - 1)
         IN  smaller \cup {T \cup {x} : T \in smaller, x \in S}

RECURSIVE Names(_)
Names(len) ==
    IF len = 0 THEN {<<>>}
    ELSE LET shorter == Names(len - 1)
         IN  shorter \cup {Append(s, ch) : s \in shorter, ch \in NameAlphabet}

InitCall ==
    /\ pc = "idle"
    /\ err = "none"
    /\ stack = <<>>
    /\ root = NoPath
    /\ subdirs = <<>>
    /\ files = {}
    /\ md_path = NoPath
    /\ ipynb_path = NoPath
    /\ outfile = {}
    /\ procs = {}
    /\ run = 0
    /\ calls = EmptyBag
    /\ exits = {}
    /\ derived = {}
    /\ prevDerived = {}
    /\ before = fs
    /\ existed = FALSE

Init ==
    /\ dirs \in Trees
    /\ unreadable \in SUBSET dirs
    /\ \E F \in UpTo({join(d, n) : d \in dirs, n \in FileNames} \ dirs, MaxFiles) :
          fs = [p \in F |-> Old]
    /\ tool \in BOOLEAN
    /\ InitCall

\* One file of any name over NameAlphabet, in folder_path or one level down.
InitNames ==
    /\ dirs \in {{folder_path}, {folder_path, DirMd}}
    /\ unreadable = {}
    /\ \E d \in dirs, n \in Names(MaxNameLen) \ {<<>>, <<".">>, <<".", ".">>} :
          /\ join(d, n) \notin dirs
          /\ fs = [p \in {join(d, n)} |-> Old]
    /\ tool \in BOOLEAN
    /\ InitCall

(***************************************************************************)
(* convert_md_to_ipynb(folder_path)                                        *)
(***************************************************************************)
\* The script runs: convert_md_to_ipynb(".") is called and os.walk(folder_path)
\* has its stack hold folder_path. An exception that leaves the call ends the
\* script, so a further run follows only a run that returned.
Call ==
    /\ pc \in {"idle", "returned"}
    /\ run < MaxRuns
    /\ run' = run + 1
    /\ pc' = "walk"
    /\ err' = "none"
    /\ stack' = <<folder_path>>
    /\ root' = NoPath
    /\ subdirs' = <<>>
    /\ files' = {}
    /\ md_path' = NoPath
    /\ ipynb_path' = NoPath
    /\ calls' = EmptyBag
    /\ exits' = {}
    /\ prevDerived' = derived
    /\ derived' = {}
    /\ before' = fs
    /\ existed' = FALSE
    /\ UNCHANGED <<tree, fs, outfile, procs>>

\* os.walk pops a directory and lists it. A listing that fails is passed to
\* onerror (None: ignored) and the walk goes on with the rest of the stack;
\* otherwise (root, dirs, files) is yielded to the outer loop.
WalkNext ==
    /\ pc = "walk"
    /\ stack # <<>>
    /\ LET top == stack[Len(stack)]
       IN  /\ stack' = SubSeq(stack, 1, Len(stack) - 1)
           /\ IF ScandirFails(top)
              THEN /\ pc' = IF onerror THEN "raised" ELSE "walk"
                   /\ err' = IF onerror THEN "OSError" ELSE err
                   /\ UNCHANGED <<root, subdirs, files>>
              ELSE /\ pc' = "files"
                   /\ root' = top
                   /\ files' = Nondirs(top)
                   /\ \E order \in [1..Cardinality(Subdirs(top)) -> Subdirs(top)] :
                         /\ \A i, j \in DOMAIN order : i # j => order[i] # order[j]
                         /\ subdirs' = order
                   /\ UNCHANGED err
    /\ UNCHANGED <<tree, fs, md_path, ipynb_path, outfile, procs, run, calls,
                   exits, derived, prevDerived, before, existed>>

\* One iteration of `for file in files` up to the print: the filter and the
\* two path computations.
Iterate ==
    /\ pc = "files"
    /\ \E file \in files :
          /\ files' = Rest(files, file)
          /\ IF endswith(file, MdSuffix)
             THEN /\ md_path' = join(root, file)
                  /\ ipynb_path' = DerivedPath(join(root, file))
                  /\ derived' = derived \cup {DerivedPath(join(root, file))}
                  /\ pc' = "open"
             ELSE UNCHANGED <<md_path, ipynb_path, derived, pc>>
    /\ UNCHANGED <<tree, fs, err, stack, root, subdirs, outfile, procs, run,
                   calls, exits, prevDerived, before, existed>>

\* open(ipynb_path, "w"): fails on a directory, may fail for lack of
\* permission, and otherwise creates the file or truncates it.
Open ==
    /\ pc = "open"
    /\ \/ /\ ipynb_path \in dirs
          /\ pc' = "raised"
          /\ err' = "IsADirectoryError"
          /\ UNCHANGED <<fs, outfile, existed>>
       \/ /\ ipynb_path \notin dirs
          /\ pc' = "raised"
          /\ err' = "PermissionError"
          /\ UNCHANGED <<fs, outfile, existed>>
       \/ /\ ipynb_path \notin dirs
          /\ existed' = (ipynb_path \in DOMAIN fs)
          /\ fs' = [p \in DOMAIN fs \cup {ipynb_path} |->
                      IF p = ipynb_path
                      THEN (IF p \in DOMAIN fs THEN Truncate(fs[p]) ELSE <<>>)
                      ELSE fs[p]]
          /\ outfile' = outfile \cup {ipynb_path}
          /\ pc' = "run"
          /\ UNCHANGED err
    /\ UNCHANGED <<tree, stack, root, subdirs, files, md_path, ipynb_path,
                   procs, run, calls, exits, derived, prevDerived, before>>

\* subprocess.run(["notedown", md_path], stdout=outfile) starts the child.
\* When the program cannot be executed Popen raises FileNotFoundError, which
\* leaves the `with` block (closing outfile) and the call.
Spawn ==
    /\ pc = "run"
    /\ IF tool
       THEN /\ procs' = procs \cup {[argv |-> <<Notedown, md_path>>, stdout |-> ipynb_path]}
            /\ calls' = calls (+) SetToBag({[argv |-> <<Notedown, md_path>>,
                                              stdout |-> ipynb_path]})
            /\ pc' = "wait"
            /\ UNCHANGED <<err, outfile>>
       ELSE /\ pc' = "raised"
            /\ err' = "FileNotFoundError"
            /\ outfile' = outfile \ {ipynb_path}
            /\ UNCHANGED <<procs, calls>>
    /\ UNCHANGED <<tree, fs, stack, root, subdirs, files, md_path, ipynb_path,
                   run, exits, derived, prevDerived, before, existed>>

\* The child writes to its standard output and exits; subprocess.run has
\* waited for it and returns (or raises CalledProcessError under check=True,
\* which closes outfile on its way out of the `with` block).
ChildExit ==
    /\ pc = "wait"
    /\ \E p \in procs, o \in ChildOutcomes :
          /\ fs' = [fs EXCEPT ![p.stdout] = @ \o o.out]
          /\ procs' = WaitChild(procs, p)
          /\ exits' = exits \cup {[argv |-> p.argv, stdout |-> p.stdout,
                                    out |-> o.out, status |-> o.status]}
          /\ IF check /\ o.status # 0
             THEN /\ pc' = "raised"
                  /\ err' = "CalledProcessError"
                  /\ outfile' = outfile \ {ipynb_path}
             ELSE /\ pc' = "close"
                  /\ UNCHANGED <<err, outfile>>
    /\ UNCHANGED <<tree, stack, root, subdirs, files, md_path, ipynb_path,
                   run, calls, derived, prevDerived, before, existed>>

\* The `with` block ends: outfile is closed and the inner loop goes on.
Close ==
    /\ pc = "close"
    /\ outfile' = outfile \ {ipynb_path}
    /\ pc' = "files"
    /\ UNCHANGED <<tree, fs, err, stack, root, subdirs, files, md_path,
                   ipynb_path, procs, run, calls, exits, derived, prevDerived,
                   before, existed>>

\* `files` is exhausted: os.walk resumes and pushes the sub-directories of
\* root, reversed, so that the first listed is walked first.
WalkInto ==
    /\ pc = "files"
    /\ files = {}
    /\ stack' = stack \o [i \in 1..Len(subdirs) |->
                            join(root, subdirs[Len(subdirs) + 1 - i])]
    /\ subdirs' = <<>>
    /\ pc' = "walk"
    /\ UNCHANGED <<tree, fs, err, root, files, md_path, ipynb_path, outfile,
                   procs, run, calls, exits, derived, prevDerived,
                   before, existed>>

\* The stack is empty: os.walk is exhausted and the call returns None.
Return ==
    /\ pc = "walk"
    /\ stack = <<>>
    /\ pc' = "returned"
    /\ UNCHANGED <<tree, fs, err, stack, root, subdirs, files, md_path,
                   ipynb_path, outfile, procs, run, calls, exits, derived,
                   prevDerived, before, existed>>

Next ==
    \/ Call
    \/ WalkNext
    \/ Iterate
    \/ Open
    \/ Spawn
    \/ ChildExit
    \/ Close
    \/ WalkInto
    \/ Return

Spec == Init /\ [][Next]_vars

SpecNames == InitNames /\ [][Next]_vars

(***************************************************************************)
(* Vocabulary of the properties, stated without the functions above.       *)
(***************************************************************************)
\* The file name of path p ends in the three characters ".md".
HasMdSuffix(p) ==
    LET n == Len(p)
    IN  n >= 3 /\ p[n - 2] = "." /\ p[n - 1] = "m" /\ p[n] = "d"

\* Directory d and every directory above it, up to folder_path, can be listed.
Accessible(d) ==
    \A k \in 1..Len(d) :
        (k = Len(d) \/ d[k + 1] = sep) => SubSeq(d, 1, k) \in dirs \ unreadable

\* The files the walk can find that end in ".md".
FoundCandidates ==
    {p \in DOMAIN fs : HasMdSuffix(p) /\ Accessible(dirname(p))}

\* Destination of candidate p: ".md" is replaced by ".ipynb", unless nothing
\* but dots precedes that ".md" in the file name, and then ".ipynb" is added
\* to the whole name.
ExpectedIpynb(p) ==
    LET name == basename(p)
        stem == SubSeq(name, 1, Len(name) - 3)
    IN  IF \A i \in 1..Len(stem) : stem[i] = "."
        THEN p \o <<".", "i", "p", "y", "n", "b">>
        ELSE SubSeq(p, 1, Len(p) - 3) \o <<".", "i", "p", "y", "n", "b">>

\* Path p with everything from the last "." of its file name removed.
LastDotStripped(p) ==
    LET dots == {i \in 1..Len(p) : p[i] = "." /\ \A j \in i..Len(p) : p[j] # sep}
        last == CHOOSE i \in dots : \A j \in dots : j <= i
    IN  SubSeq(p, 1, last - 1)

InCandidate == pc \in {"open", "run", "wait", "close"}

CalledWith(p) == {c \in BagToSet(calls) : c.argv = <<Notedown, p>>}

C2_Filter ==
    /\ \A c \in BagToSet(calls) :
          c.argv[2] \in DOMAIN fs /\ c.argv[2] \notin dirs /\ HasMdSuffix(c.argv[2])
    /\ pc = "returned" => \A p \in FoundCandidates : CalledWith(p) # {}
    /\ \A p \in DOMAIN fs \ DOMAIN before :
          \E q \in DOMAIN fs : HasMdSuffix(q) /\ p = ExpectedIpynb(q)
    /\ (\A p \in DOMAIN fs : ~HasMdSuffix(p)) => fs = before /\ calls = EmptyBag

\* A listed directory holds a.md and a.MD next to a directory named d.md,
\* and the call returned having run the converter once.
C2_Witness ==
    /\ pc = "returned"
    /\ DirMd \in dirs \ unreadable
    /\ join(folder_path, <<"a", ".", "M", "D">>) \in DOMAIN fs
    /\ join(folder_path, <<"a", ".", "m", "d">>) \in DOMAIN fs
    /\ BagCardinality(calls) = 1

C4_NoConversionFailureHalts ==
    pc = "raised" => err \in {"IsADirectoryError", "PermissionError"}

\* C4 amended: a converter that exits non-zero never ends the call: every
\* candidate the walk finds is still attempted and the call returns, the
\* failure showing only in what the destination holds. A converter that
\* cannot be executed ends the call at the first candidate with
\* FileNotFoundError, leaving that candidate's destination empty and closed.
C4_FailureIsolation ==
    /\ err # "CalledProcessError"
    /\ err = "FileNotFoundError" =>
          /\ pc = "raised" /\ ~tool
          /\ ipynb_path \in DOMAIN fs /\ fs[ipynb_path] = <<>>
          /\ outfile = {} /\ calls = EmptyBag
    /\ ~tool => exits = {} /\ procs = {}
    /\ (pc = "returned" /\ tool) =>
          \A p \in FoundCandidates : \E e \in exits : e.argv = <<Notedown, p>>
    /\ (pc = "returned" /\ ~tool) => FoundCandidates = {}

\* A converter is running after an earlier one exited non-zero in this call.
C4_Witness ==
    /\ pc = "wait"
    /\ \E e \in exits : e.status # 0

(***************************************************************************)
(* C5  Traversal error.                                                    *)
(***************************************************************************)
\* C5 as stated: when folder_path is missing or unreadable the call does
\* not return normally.
C5_ListingErrorPropagates ==
    ScandirFails(folder_path) => pc # "returned"

\* C5 amended: when folder_path is missing or unreadable the failure of the
\* listing is ignored: the call raises nothing, runs no converter, leaves
\* the file system as it was and returns after an empty traversal.
C5_ListingErrorIgnored ==
    ScandirFails(folder_path) =>
        /\ pc \in {"idle", "walk", "returned"}
        /\ err = "none"
        /\ calls = EmptyBag
        /\ derived = {}
        /\ fs = before
        /\ pc = "walk" => stack \in {<<folder_path>>, <<>>}

\* The call returned although folder_path could not be listed.
C5_Witness ==
    /\ pc = "returned"
    /\ ScandirFails(folder_path)
    /\ derived = {}

(***************************************************************************)
(* C6  Sequential processing.                                              *)
(***************************************************************************)
\* C6: at most one converter is alive and at most one destination is open,
\* both belonging to the current candidate, and neither is left when the
\* traversal moves on.
C6_Sequential ==
    /\ Cardinality(procs) <= 1
    /\ Cardinality(outfile) <= 1
    /\ outfile \subseteq {ipynb_path}
    /\ \A p \in procs : p.stdout \in outfile /\ p.argv = <<Notedown, md_path>>
    /\ pc \notin {"wait"} => procs = {}
    /\ pc \notin {"run", "wait", "close"} => outfile = {}

\* The traversal reached a second candidate after the first one's converter
\* ended and its destination was closed.
C6_Witness ==
    /\ pc = "open"
    /\ Cardinality(exits) = 1
    /\ procs = {}
    /\ outfile = {}

(***************************************************************************)
(* C7  Idempotent naming.                                                  *)
(***************************************************************************)
\* C7: a call that follows a call that returned derives the same set of
\* destination paths and, when it returns, has created no file.
C7_IdempotentNaming ==
    /\ (pc = "returned" /\ run >= 2) =>
          derived = prevDerived /\ DOMAIN fs = DOMAIN before
    /\ run >= 2 => derived \subseteq prevDerived /\ DOMAIN fs = DOMAIN before

\* A second call returned after overwriting the destinations of the first.
C7_Witness ==
    /\ pc = "returned"
    /\ run = 2
    /\ Cardinality(derived) = 2

(***************************************************************************)
(* C8  Exactly-once conversion.                                            *)
(***************************************************************************)
\* C8 as stated: once the call has returned, every file under folder_path
\* whose name ends in ".md" had exactly one converter spawned for it.
C8_EveryCandidateOnce ==
    pc = "returned" =>
        \A p \in DOMAIN fs : HasMdSuffix(p) =>
            \E c \in CalledWith(p) : CalledWith(p) = {c} /\ calls[c] = 1

\* C8 amended: no converter is spawned twice for a path, each is spawned
\* with the candidate's path as its only argument, and once the call has
\* returned exactly one was spawned for every candidate whose directory,
\* with all directories above it, can be listed, and none for any other.
C8_ExactlyOnce ==
    /\ \A c \in BagToSet(calls) :
          /\ calls[c] = 1
          /\ Len(c.argv) = 2 /\ c.argv[1] = Notedown
          /\ c.argv[2] \in DOMAIN fs /\ HasMdSuffix(c.argv[2])
          /\ Accessible(dirname(c.argv[2]))
          /\ CalledWith(c.argv[2]) = {c}
    /\ pc = "returned" => \A p \in FoundCandidates : CalledWith(p) # {}

\* Two candidates of one directory were converted, destinations being
\* created in that directory while it was walked.
C8_Witness ==
    /\ pc = "returned"
    /\ BagCardinality(calls) = 2
    /\ \A c \in BagToSet(calls) : dirname(c.argv[2]) = DirMd
    /\ derived \cap DOMAIN before = {}

(***************************************************************************)
(* C9  Silent overwrite.                                                   *)
(***************************************************************************)
\* C9 as stated: whatever exists at the destination path, the call goes on
\* without an error from opening it.
C9_AnythingOverwritten ==
    err # "IsADirectoryError"

\* C9 amended: when the destination can be opened for writing, a regular
\* file existing there is overwritten silently: the destination exists and
\* is empty before the converter is invoked and until it exits, and after
\* the converter exited it holds exactly what the converter wrote. A
\* directory at the destination path is not overwritten: opening it raises
\* IsADirectoryError, which ends the call.
C9_Overwrite ==
    /\ pc \in {"run", "wait"} =>
          ipynb_path \in DOMAIN fs /\ fs[ipynb_path] = <<>>
    /\ pc = "close" =>
          /\ ipynb_path \in DOMAIN fs
          /\ \E e \in exits : /\ e.argv = <<Notedown, md_path>>
                              /\ e.stdout = ipynb_path
                              /\ fs[ipynb_path] = e.out
    /\ err = "IsADirectoryError" => pc = "raised" /\ ipynb_path \in dirs
    /\ (pc = "raised" /\ ipynb_path \in dirs) => err = "IsADirectoryError"

\* A destination that held "old" before the call was opened and the
\* converter wrote nothing to it.
C9_Witness ==
    /\ pc = "close"
    /\ existed
    /\ ipynb_path \in DOMAIN before
    /\ before[ipynb_path] = <<"old">>
    /\ fs[ipynb_path] = <<>>

(***************************************************************************)
(* C10  Distinct destinations.                                             *)
(***************************************************************************)
\* C10: two converters spawned by one call for different candidates never
\* write to the same destination path.
C10_DistinctDestinations ==
    \A c1, c2 \in BagToSet(calls) : c1.argv # c2.argv => c1.stdout # c2.stdout

=============================================================================
